---- MODULE Spec2Model ----
(***************************************************************************)
(* Segment-based id generator of caeret/genid (generator package).         *)
(*                                                                         *)
(* One store (the counter table) is shared by the registries              *)
(* (mysqlGenerator, one per server process).  Every registry maps keys to  *)
(* engines (mysqlRowBasedEngine); an engine serves ids from its segment    *)
(* (cur, max] and reserves a new segment with increase().                  *)
(*                                                                         *)
(* increase() opens a transaction with db.Begin() but issues its SELECT,   *)
(* INSERT and UPDATE on the connection pool (m.generator.db), not on the   *)
(* transaction: each statement is its own autocommit statement, the row    *)
(* lock of SELECT ... FOR UPDATE ends with the statement, and Commit and   *)
(* Rollback act on an empty transaction.  The statements are the atomic    *)
(* steps of the model.                                                     *)
(*                                                                         *)
(* Close() closes the connection pool of a registry and nothing else.      *)
(* DefaultHandler.Handle (beamhandler package) maps the requests PING,     *)
(* INCR and GET onto the registry's Next and Current.                      *)
(***************************************************************************)
EXTENDS Integers, Sequences, FiniteSets, TLC

(* ------------------------------ bounds --------------------------------- *)
\* calls of EnableKeys, Next and Current that the workers may start
MaxCalls == 4
\* store statements that may fail (connection loss and the like)
MaxFails == 1

Keys == {"a", "b"}
Regs == {1, 2}
Procs == {"p1", "p2"}
\* the key lists EnableKeys is called with
KeyLists == {<< >>, <<"a">>, <<"a", "b">>, <<"a", "a">>}

\* sql.ErrNoRows: the key has no counter row
NoRow == -1
\* a key that is absent from sourceMap
NoEngine == 0
NoProc == "none"

Nil == "nil"
ErrKeyDoesNotExist == "key does not exist"
ErrStore == "store error"
ErrInvalidSkip == "invalid skip"
ErrRowCount == "invalid effected row count"
Panic == "panic"

VARIABLES
    row,        \* the counter table: key -> value, or NoRow
    db,         \* mysqlGenerator.db of every registry: "open" or "closed"
    skip,       \* mysqlGenerator.skip of every registry
    regOf,      \* the registry (process) every worker runs in
    sourceMap,  \* mysqlGenerator.sourceMap of every registry: key -> engine
    rw,         \* mysqlGenerator.RWMutex of every registry
    engines,    \* the heap of mysqlRowBasedEngine objects
    pc,         \* where every worker is
    call,       \* the call a worker is in, with its arguments
    loc,        \* the locals of the call
    ret,        \* what the call that returned last returned
    quota,      \* the calls every worker may still start, per operation
    budget,     \* the calls the workers may still start, in all
    fails,      \* the store failures that may still happen
    issued,     \* history: the ids returned by Next
    dups,       \* history: the ids returned a second time
    segs,       \* history: the segments the successful increase() calls returned
    floor,      \* history: per installed engine, the highest id returned for
                \*   its key in its registry before it was installed
    orphans,    \* history: engines built by an EnableKeys call that failed
    lastGet,    \* history: per registry and key, the last Current since a Next
    served      \* history: per engine, the next() calls that reached its segment

vars == <<row, db, skip, regOf, sourceMap, rw, engines, pc, call, loc, ret, quota, budget, fails,
          issued, dups, segs, floor, orphans, lastGet, served>>

store == <<row>>
config == <<skip, regOf, db, fails>>
history == <<issued, dups, segs, floor, orphans, lastGet, served>>

EngineIds == DOMAIN engines
\* Close() has returned in registry r
Closed(r) == db[r] = "closed"
Workers == DOMAIN regOf
Reg(p) == regOf[p]

NoGet == [eng |-> NoEngine, id |-> 0]
\* no request: the call was not made by the protocol handler
NoReq == [cmd |-> <<"-">>, args |-> << >>]
\* a reply: kind is "simple", "error" or "integer"; "none" is no reply at all
NoReply == [kind |-> "none", str |-> "", num |-> 0]
NoCall == [op |-> "none", key |-> "", keys |-> << >>, i |-> 0,
           late |-> FALSE, req |-> NoReq]
NoLoc == [eng |-> NoEngine, data |-> [k \in Keys |-> NoEngine],
          cur |-> 0, max |-> 0, err |-> Nil, io |-> 0, refill |-> FALSE,
          rd |-> NoRow, wr |-> NoRow, pre |-> NoRow]
NoRet == [proc |-> NoProc, op |-> "none", key |-> "", keys |-> << >>, id |-> 0,
          err |-> Nil, io |-> 0, refill |-> FALSE, eng |-> NoEngine, n |-> 0,
          prev |-> NoGet, late |-> FALSE, req |-> NoReq, reply |-> NoReply]

SetMax(S) == IF S = {} THEN 0 ELSE CHOOSE y \in S : \A z \in S : z <= y

Range(f) == {f[x] : x \in DOMAIN f}

(* --------------------------- the code's pieces ------------------------- *)
\* increase(), no row: max += m.skip
IncreaseInsertMax(s) == 0 + s
\* a bug: the segment reserved is twice the step
IncreaseUpdateMaxTwice(cur, delta) == cur + delta + delta
\* increase(), row found: max = cur + delta
IncreaseUpdateMax(cur, delta) == cur + delta
\* a bug: > for ==, the exhausted segment is never refilled
ExhaustedNever(e) == e.cur > e.max
\* next(): if m.cur == m.max
Exhausted(e) == e.cur = e.max
\* next(): m.cur++
NextId(cur) == cur + 1
\* current(): return m.cur
CurrentId(e) == e.cur
\* rowBasedEngine(): engine, exist := m.sourceMap[key]
LookupEngine(r, k) == sourceMap[r][k]
\* a bug: an absent key reported as a store error
LookupErrGeneric(e) == IF e = NoEngine THEN ErrStore ELSE Nil
\* rowBasedEngine(): if !exist { err = ErrKeyDoesNotExist }
LookupErr(e) == IF e = NoEngine THEN ErrKeyDoesNotExist ELSE Nil
\* a bug: current() advances the engine as next() does
AfterCurrentBump(e) == [e EXCEPT !.cur = @ + 1]
\* current() assigns no field of the engine
AfterCurrent(e) == e
\* a bug: the loop writes the new engine into the live map
LoopMapDirect(old, k, e) == [old EXCEPT ![k] = e]
\* a bug: the swap keeps the keys that are not in the input
SwapMapMerge(old, data) ==
    [k \in Keys |-> IF data[k] # NoEngine THEN data[k] ELSE old[k]]
\* EnableKeys(): data[key], err = newMysqlRowBasedEngine(...) fills the local
\* map; m.sourceMap is not written in the loop
LoopMap(old, k, e) == old
\* EnableKeys(): m.sourceMap = data
SwapMap(old, data) == data
\* a bug: Close() that leaves the connection pool open
DbOpenAlways(r) == TRUE
\* Close(): m.db.Close(); a closed *sql.DB fails Begin, QueryRow and Exec
DbOpen(r) == db[r] = "open"
\* a bug: m.mutex.Lock() that does not wait
MutexFreeAlways(e) == TRUE
\* next() / current(): m.mutex.Lock() waits until the mutex is free
MutexFree(e) == e.mutex = NoProc
\* a bug: rowBasedEngine() that keeps the read lock after it returned
RUnlockNever(readers, p) == readers
\* rowBasedEngine(): defer m.RUnlock()
RUnlock(readers, p) == readers \ {p}
\* a bug: EnableKeys() that takes m.Lock() before it builds the engines
BuildLockEarly(l, p) == [l EXCEPT !.writer = p]
\* EnableKeys(): the loop that builds the engines runs before m.Lock()
BuildLock(l, p) == l

(* ----------------------- DefaultHandler.Handle ------------------------- *)
Lower == <<"a", "b", "c", "d", "e", "f", "g", "h", "i", "j", "k", "l", "m",
           "n", "o", "p", "q", "r", "s", "t", "u", "v", "w", "x", "y", "z">>
Upper == <<"A", "B", "C", "D", "E", "F", "G", "H", "I", "J", "K", "L", "M",
           "N", "O", "P", "Q", "R", "S", "T", "U", "V", "W", "X", "Y", "Z">>
Digits == <<"0", "1", "2", "3", "4", "5", "6", "7", "8", "9">>

\* strings.ToUpper, on a command given as its sequence of characters
ToUpperChar(c) == IF \E i \in DOMAIN Lower : Lower[i] = c
                  THEN Upper[CHOOSE i \in DOMAIN Lower : Lower[i] = c]
                  ELSE c
ToUpper(w) == [i \in DOMAIN w |-> ToUpperChar(w[i])]

\* strconv.FormatInt(id, 10)
RECURSIVE FormatNat(_)
FormatNat(n) == IF n < 10 THEN Digits[n + 1]
                ELSE FormatNat(n \div 10) \o Digits[(n % 10) + 1]
FormatInt(id) == IF id < 0 THEN "-" \o FormatNat(0 - id) ELSE FormatNat(id)

PING == <<"P", "I", "N", "G">>
INCR == <<"I", "N", "C", "R">>
GET == <<"G", "E", "T">>
PONG == "PONG"
InvalidArguments == "invalid arguments"
UnsupportedMethod == "unsupported method."

NewSimpleStringsReply(t) == [kind |-> "simple", str |-> t, num |-> 0]
NewErrorsReply(t) == [kind |-> "error", str |-> t, num |-> 0]
NewIntegersReply(n) == [kind |-> "integer", str |-> "", num |-> n]

\* the switch of Handle: the engine operation the request calls, or the
\* reply it gets without one
Dispatch(req) ==
    LET cmd == ToUpper(req.cmd) IN
    CASE cmd = PING -> [op |-> "none", resp |-> NewSimpleStringsReply(PONG)]
      [] cmd = INCR -> IF Len(req.args) # 1
                       THEN [op |-> "none", resp |-> NewErrorsReply(InvalidArguments)]
                       ELSE [op |-> "Next", resp |-> NoReply]
      [] cmd = GET -> IF Len(req.args) # 1
                      THEN [op |-> "none", resp |-> NewErrorsReply(InvalidArguments)]
                      ELSE [op |-> "Current", resp |-> NoReply]
      [] OTHER -> [op |-> "none", resp |-> NewErrorsReply(UnsupportedMethod)]

\* Handle, after s.engine.Next / s.engine.Current returned (id, err); a
\* panic of the engine passes through Handle, which replies nothing
Respond(op, id, err) ==
    IF err = Panic THEN NoReply
    ELSE IF err # Nil THEN NewErrorsReply(err)
    ELSE IF op = "Next" THEN NewIntegersReply(id)
    ELSE NewSimpleStringsReply(FormatInt(id))

TypeOK ==
    /\ row \in [Keys -> Int]
    /\ db \in [Regs -> {"open", "closed"}]
    /\ skip \in [Regs -> Int]
    /\ DOMAIN regOf \subseteq Procs
    /\ fails \in Nat
    /\ sourceMap \in [Regs -> [Keys -> Nat]]
    /\ \A r \in Regs : rw[r].writer \in Procs \cup {NoProc} /\ rw[r].readers \subseteq Procs

(* -------------------------------- Init --------------------------------- *)
InitState(q, b, f, sk, ro) ==
    /\ row = [k \in Keys |-> NoRow]
    /\ db = [r \in Regs |-> "open"]
    /\ skip = sk
    /\ regOf = ro
    /\ sourceMap = [r \in Regs |-> [k \in Keys |-> NoEngine]]
    /\ rw = [r \in Regs |-> [writer |-> NoProc, readers |-> {}]]
    /\ engines = << >>
    /\ pc = [p \in Procs |-> "idle"]
    /\ call = [p \in Procs |-> NoCall]
    /\ loc = [p \in Procs |-> NoLoc]
    /\ ret = NoRet
    /\ quota = q
    /\ budget = b
    /\ fails = f
    /\ issued = {}
    /\ dups = {}
    /\ segs = {}
    /\ floor = << >>
    /\ orphans = {}
    /\ lastGet = [r \in Regs |-> [k \in Keys |-> NoGet]]
    /\ served = << >>

(* ------------------------------ helpers -------------------------------- *)
\* the call of worker p returns r
Done(p, r) ==
    /\ pc' = [pc EXCEPT ![p] = "idle"]
    /\ call' = [call EXCEPT ![p] = NoCall]
    /\ loc' = [loc EXCEPT ![p] = NoLoc]
    /\ ret' = [r EXCEPT !.proc = p, !.late = call[p].late, !.req = call[p].req,
                        !.reply = IF call[p].req = NoReq THEN NoReply
                                  ELSE Respond(r.op, r.id, r.err)]

Result(p, id, err) ==
    [NoRet EXCEPT !.op = call[p].op, !.key = call[p].key,
                  !.keys = call[p].keys, !.id = id,
                  !.err = err, !.io = loc[p].io, !.refill = loc[p].refill,
                  !.eng = loc[p].eng]

\* Next returns id from engine e
Issue(e, k, id) ==
    /\ issued' = issued \cup {[key |-> k, id |-> id, eng |-> e]}
    /\ dups' = dups \cup {[key |-> k, id |-> id, first |-> x.eng, second |-> e] :
                          x \in {y \in issued : y.key = k /\ y.id = id}}

\* m.key and m.skip of the engine whose increase() worker p runs
IncKey(p) == IF call[p].op = "EnableKeys" THEN call[p].keys[call[p].i]
             ELSE call[p].key
IncSkip(p) == IF call[p].op = "EnableKeys" THEN skip[Reg(p)]
              ELSE engines[loc[p].eng].skip

Built(p) == Range(loc[p].data) \ {NoEngine}

(* -------------------- mysqlGenerator.Next / Current -------------------- *)
\* Next(key): rowBasedEngine(key) takes the read lock
StartNext(p, k, req) ==
    /\ p \in Workers /\ pc[p] = "idle" /\ quota[p].next > 0 /\ budget > 0
    /\ rw[Reg(p)].writer = NoProc
    /\ rw' = [rw EXCEPT ![Reg(p)].readers = @ \cup {p}]
    /\ pc' = [pc EXCEPT ![p] = "lookup"]
    /\ call' = [call EXCEPT ![p] = [NoCall EXCEPT !.op = "Next", !.key = k,
                                       !.late = Closed(Reg(p)), !.req = req]]
    /\ loc' = [loc EXCEPT ![p] = NoLoc]
    /\ quota' = [quota EXCEPT ![p].next = @ - 1]
    /\ budget' = budget - 1
    /\ lastGet' = [lastGet EXCEPT ![Reg(p)][k] = NoGet]
    /\ UNCHANGED <<store, config, sourceMap, engines, ret,
                   issued, dups, segs, floor, orphans, served>>

NextCall(p, k) == StartNext(p, k, NoReq)

\* Current(key): rowBasedEngine(key) takes the read lock
StartCurrent(p, k, req) ==
    /\ p \in Workers /\ pc[p] = "idle" /\ quota[p].current > 0 /\ budget > 0
    /\ rw[Reg(p)].writer = NoProc
    /\ rw' = [rw EXCEPT ![Reg(p)].readers = @ \cup {p}]
    /\ pc' = [pc EXCEPT ![p] = "lookup"]
    /\ call' = [call EXCEPT ![p] = [NoCall EXCEPT !.op = "Current", !.key = k,
                                       !.late = Closed(Reg(p)), !.req = req]]
    /\ loc' = [loc EXCEPT ![p] = NoLoc]
    /\ quota' = [quota EXCEPT ![p].current = @ - 1]
    /\ budget' = budget - 1
    /\ UNCHANGED <<store, config, sourceMap, engines, ret, history>>

CurrentCall(p, k) == StartCurrent(p, k, NoReq)

\* Handle(req): a request that names Next or Current calls it; every other
\* request is answered at once
Handle(p, req) ==
    LET d == Dispatch(req) IN
    IF d.op = "Next" THEN StartNext(p, req.args[1], req)
    ELSE IF d.op = "Current" THEN StartCurrent(p, req.args[1], req)
    ELSE /\ p \in Workers /\ pc[p] = "idle" /\ quota[p].handle > 0 /\ budget > 0
         /\ quota' = [quota EXCEPT ![p].handle = @ - 1]
         /\ budget' = budget - 1
         /\ ret' = [NoRet EXCEPT !.proc = p, !.op = "Handle", !.req = req,
                                  !.reply = d.resp]
         /\ UNCHANGED <<store, config, sourceMap, rw, engines, pc, call, loc, history>>

\* Close(): return m.db.Close()
Close(p) ==
    /\ p \in Workers /\ pc[p] = "idle" /\ quota[p].close > 0 /\ budget > 0
    /\ quota' = [quota EXCEPT ![p].close = @ - 1]
    /\ budget' = budget - 1
    /\ db' = [db EXCEPT ![Reg(p)] = "closed"]
    /\ ret' = [NoRet EXCEPT !.proc = p, !.op = "Close"]
    /\ UNCHANGED <<store, skip, regOf, fails, sourceMap, rw, engines, pc, call, loc,
                   history>>

\* rowBasedEngine(): reads m.sourceMap[key], releases the read lock; an absent
\* key ends Next/Current with ErrKeyDoesNotExist
Lookup(p) ==
    /\ pc[p] = "lookup"
    /\ rw' = [rw EXCEPT ![Reg(p)].readers = RUnlock(@, p)]
    /\ LET e == LookupEngine(Reg(p), call[p].key) IN
       IF LookupErr(e) # Nil
       THEN Done(p, Result(p, 0, LookupErr(e)))
       ELSE /\ pc' = [pc EXCEPT ![p] = "mutex"]
            /\ loc' = [loc EXCEPT ![p].eng = e]
            /\ UNCHANGED <<call, ret>>
    /\ lastGet' = IF call[p].op = "Next"
                  THEN [lastGet EXCEPT ![Reg(p)][call[p].key] = NoGet]
                  ELSE lastGet
    /\ UNCHANGED <<store, config, sourceMap, engines, quota, budget,
                   issued, dups, segs, floor, orphans, served>>

\* next() / current(): m.mutex.Lock()
MutexLock(p) ==
    /\ pc[p] = "mutex"
    /\ MutexFree(engines[loc[p].eng])
    /\ engines' = [engines EXCEPT ![loc[p].eng].mutex = p]
    /\ pc' = [pc EXCEPT ![p] = IF call[p].op = "Next" THEN "check" ELSE "current"]
    /\ lastGet' = IF call[p].op = "Next"
                  THEN [lastGet EXCEPT ![Reg(p)][call[p].key] = NoGet]
                  ELSE lastGet
    /\ UNCHANGED <<store, config, sourceMap, rw, call, loc, ret, quota, budget,
                   issued, dups, segs, floor, orphans, served>>

\* next(): a segment that is not exhausted serves the id; an exhausted one
\* calls increase(m.skip)
NextCheck(p) ==
    /\ pc[p] = "check"
    /\ LET e == loc[p].eng
           n == served[e] + 1
           id == NextId(engines[e].cur) IN
       /\ served' = [served EXCEPT ![e] = n]
       /\ IF Exhausted(engines[e])
          THEN /\ pc' = [pc EXCEPT ![p] = "begin"]
               /\ loc' = [loc EXCEPT ![p].refill = TRUE]
               /\ UNCHANGED <<engines, call, ret, issued, dups>>
          ELSE /\ engines' = [engines EXCEPT ![e].cur = id, ![e].mutex = NoProc]
               /\ Issue(e, call[p].key, id)
               /\ Done(p, [Result(p, id, Nil) EXCEPT !.n = n])
    /\ lastGet' = [lastGet EXCEPT ![Reg(p)][call[p].key] = NoGet]
    /\ UNCHANGED <<store, config, sourceMap, rw, quota, budget, segs, floor, orphans>>

\* current(): returns m.cur under the mutex
CurrentReturn(p) ==
    /\ pc[p] = "current"
    /\ LET e == loc[p].eng
           id == CurrentId(engines[e])
           r == Reg(p)
           k == call[p].key IN
       /\ engines' = [engines EXCEPT ![e] = [AfterCurrent(@) EXCEPT !.mutex = NoProc]]
       /\ lastGet' = [lastGet EXCEPT ![r][k] = [eng |-> e, id |-> id]]
       /\ Done(p, [Result(p, id, Nil) EXCEPT !.prev = lastGet[r][k]])
    /\ UNCHANGED <<store, config, sourceMap, rw, quota, budget,
                   issued, dups, segs, floor, orphans, served>>

(* ---------------------- mysqlGenerator.EnableKeys ---------------------- *)
\* EnableKeys(keys): an empty list goes straight to the swap; otherwise
\* newMysqlRowBasedEngine rejects skip <= 0 or starts the first increase()
EnableKeys(p, keys) ==
    /\ p \in Workers /\ pc[p] = "idle" /\ quota[p].enable > 0 /\ budget > 0
    /\ quota' = [quota EXCEPT ![p].enable = @ - 1]
    /\ budget' = budget - 1
    /\ rw' = [rw EXCEPT ![Reg(p)] = BuildLock(@, p)]
    /\ LET c == [NoCall EXCEPT !.op = "EnableKeys", !.keys = keys,
                               !.late = Closed(Reg(p))] IN
       IF keys = << >>
       THEN /\ pc' = [pc EXCEPT ![p] = "lock"]
            /\ call' = [call EXCEPT ![p] = c]
            /\ loc' = [loc EXCEPT ![p] = NoLoc]
            /\ UNCHANGED ret
       ELSE IF skip[Reg(p)] <= 0
       THEN /\ pc' = [pc EXCEPT ![p] = "idle"]
            /\ call' = [call EXCEPT ![p] = NoCall]
            /\ loc' = [loc EXCEPT ![p] = NoLoc]
            /\ ret' = [NoRet EXCEPT !.proc = p, !.op = "EnableKeys",
                                     !.keys = keys, !.err = ErrInvalidSkip]
       ELSE /\ pc' = [pc EXCEPT ![p] = "begin"]
            /\ call' = [call EXCEPT ![p] = [c EXCEPT !.i = 1]]
            /\ loc' = [loc EXCEPT ![p] = NoLoc]
            /\ UNCHANGED ret
    /\ UNCHANGED <<store, config, sourceMap, engines, history>>

\* EnableKeys(): m.Lock()
EnableLock(p) ==
    /\ pc[p] = "lock"
    /\ rw[Reg(p)].writer = NoProc /\ rw[Reg(p)].readers = {}
    /\ rw' = [rw EXCEPT ![Reg(p)].writer = p]
    /\ pc' = [pc EXCEPT ![p] = "swap"]
    /\ UNCHANGED <<store, config, sourceMap, engines, call, loc, ret, quota, budget, history>>

\* EnableKeys(): m.sourceMap = data; m.Unlock()
EnableSwap(p) ==
    /\ pc[p] = "swap"
    /\ LET r == Reg(p)
           new == Built(p)
           before(e) == SetMax({x.id : x \in {y \in issued :
                           y.key = engines[e].key /\ engines[y.eng].reg = r}}) IN
       /\ sourceMap' = [sourceMap EXCEPT ![r] = SwapMap(@, loc[p].data)]
       /\ rw' = [rw EXCEPT ![r].writer = NoProc]
       /\ floor' = [e \in (DOMAIN floor) \cup new |->
                       IF e \in new THEN before(e) ELSE floor[e]]
    /\ Done(p, [NoRet EXCEPT !.op = "EnableKeys", !.keys = call[p].keys,
                             !.io = loc[p].io])
    /\ UNCHANGED <<store, config, engines, quota, budget,
                   issued, dups, segs, orphans, lastGet, served>>

(* --------------------- mysqlRowBasedEngine.increase -------------------- *)
\* what the caller of increase() does with (cur, max, err):
\*   next():  m.cur, m.max, err = m.increase(m.skip); on nil m.cur++, return
\*   newMysqlRowBasedEngine(): mysqlEngine.cur, mysqlEngine.max, err = ...;
\*            EnableKeys() returns the error or goes on with the next key
Return(p, err) ==
    LET cur == loc[p].cur
        max == loc[p].max
        r == Reg(p)
        k == IncKey(p) IN
    IF call[p].op = "Next"
    THEN LET e == loc[p].eng
             id == NextId(cur) IN
         /\ engines' = [engines EXCEPT ![e].cur = IF err = Nil THEN id ELSE cur,
                                       ![e].max = max,
                                       ![e].mutex = NoProc]
         /\ IF err = Nil
            THEN /\ Issue(e, k, id)
                 /\ segs' = segs \cup {[eng |-> e, reg |-> r, key |-> k,
                                        prev |-> cur, new |-> max,
                                        rd |-> loc[p].rd, wr |-> loc[p].wr]}
                 /\ Done(p, [Result(p, id, Nil) EXCEPT !.n = served[e]])
            ELSE /\ Done(p, [Result(p, 0, err) EXCEPT !.n = served[e]])
                 /\ UNCHANGED <<issued, dups, segs>>
         /\ UNCHANGED <<sourceMap, orphans, served>>
    ELSE IF err # Nil
    THEN /\ orphans' = orphans \cup Built(p)
         /\ Done(p, [NoRet EXCEPT !.op = "EnableKeys", !.keys = call[p].keys,
                                  !.err = err, !.io = loc[p].io])
         /\ UNCHANGED <<engines, sourceMap, issued, dups, segs, served>>
    ELSE LET e == Len(engines) + 1 IN
         /\ engines' = Append(engines, [reg |-> r, key |-> k, skip |-> skip[r],
                                        cur |-> cur, max |-> max, mutex |-> NoProc])
         /\ served' = Append(served, 0)
         /\ segs' = segs \cup {[eng |-> e, reg |-> r, key |-> k,
                                prev |-> cur, new |-> max,
                                rd |-> loc[p].rd, wr |-> loc[p].wr]}
         /\ sourceMap' = [sourceMap EXCEPT ![r] = LoopMap(@, k, e)]
         /\ loc' = [loc EXCEPT ![p].data[k] = e]
         /\ IF call[p].i < Len(call[p].keys)
            THEN /\ call' = [call EXCEPT ![p].i = @ + 1]
                 /\ pc' = [pc EXCEPT ![p] = "begin"]
            ELSE /\ pc' = [pc EXCEPT ![p] = "lock"]
                 /\ UNCHANGED call
         /\ UNCHANGED <<ret, issued, dups, orphans>>

\* a nil *sql.Tx or a nil sql.Result is dereferenced: the call panics; the
\* deferred m.mutex.Unlock() of next() runs, nothing is assigned
Unwind(p) ==
    /\ IF call[p].op = "Next"
       THEN /\ engines' = [engines EXCEPT ![loc[p].eng].mutex = NoProc]
            /\ Done(p, [Result(p, 0, Panic) EXCEPT !.n = served[loc[p].eng]])
            /\ UNCHANGED orphans
       ELSE /\ orphans' = orphans \cup Built(p)
            /\ Done(p, [NoRet EXCEPT !.op = "EnableKeys", !.keys = call[p].keys,
                                     !.err = Panic, !.io = loc[p].io])
            /\ UNCHANGED engines
    /\ UNCHANGED <<sourceMap, issued, dups, segs, served>>

\* a statement fails: the store fails it, or the connection pool is closed
StoreFails(p) ==
    \/ fails > 0 /\ fails' = fails - 1
    \/ ~DbOpen(Reg(p)) /\ fails' = fails

\* tx, err := m.generator.db.Begin()
Begin(p) ==
    /\ pc[p] = "begin" /\ DbOpen(Reg(p))
    /\ pc' = [pc EXCEPT ![p] = "select"]
    /\ loc' = [loc EXCEPT ![p].cur = 0, ![p].max = 0, ![p].err = Nil,
                          ![p].io = @ + 1, ![p].rd = NoRow, ![p].wr = NoRow,
                          ![p].pre = row[IncKey(p)]]
    /\ UNCHANGED <<store, config, sourceMap, rw, engines, call, ret, quota, budget,
                   issued, dups, segs, floor, orphans, lastGet, served>>

\* Begin() fails: tx is nil and the deferred tx.Rollback() panics
BeginFail(p) ==
    /\ pc[p] = "begin"
    /\ StoreFails(p)
    /\ Unwind(p)
    /\ UNCHANGED <<store, skip, regOf, db, quota, budget, rw, floor, lastGet>>

\* QueryRow(selectSQL, key).Scan(&cur): the row's value, or sql.ErrNoRows and
\* max += m.skip
Select(p) ==
    /\ pc[p] = "select" /\ DbOpen(Reg(p))
    /\ LET v == row[IncKey(p)] IN
       IF v = NoRow
       THEN /\ loc' = [loc EXCEPT ![p].max = IncreaseInsertMax(IncSkip(p)),
                                  ![p].rd = 0, ![p].io = @ + 1]
            /\ pc' = [pc EXCEPT ![p] = "insert"]
       ELSE /\ loc' = [loc EXCEPT ![p].cur = v, ![p].rd = v, ![p].io = @ + 1]
            /\ pc' = [pc EXCEPT ![p] = "update"]
    /\ UNCHANGED <<store, config, sourceMap, rw, engines, call, ret, quota, budget,
                   issued, dups, segs, floor, orphans, lastGet, served>>

\* the SELECT fails with another error: increase() returns (0, 0, err)
SelectFail(p) ==
    /\ pc[p] = "select"
    /\ StoreFails(p)
    /\ loc' = [loc EXCEPT ![p].err = ErrStore, ![p].io = @ + 1]
    /\ pc' = [pc EXCEPT ![p] = "rollback"]
    /\ UNCHANGED <<store, skip, regOf, db, quota, budget, sourceMap, rw, engines, call, ret,
                   issued, dups, segs, floor, orphans, lastGet, served>>

\* Exec(insertSQL, key, max, now): the row is created
Insert(p) ==
    /\ pc[p] = "insert" /\ DbOpen(Reg(p))
    /\ row[IncKey(p)] = NoRow
    /\ row' = [row EXCEPT ![IncKey(p)] = loc[p].max]
    /\ loc' = [loc EXCEPT ![p].wr = loc[p].max, ![p].io = @ + 1]
    /\ pc' = [pc EXCEPT ![p] = "commit"]
    /\ UNCHANGED <<config, sourceMap, rw, engines, call, ret, quota, budget,
                   issued, dups, segs, floor, orphans, lastGet, served>>

\* the INSERT meets a row created since the SELECT (UNIQUE KEY `key`): Exec
\* returns a nil Result and res.RowsAffected() panics
InsertDuplicate(p) ==
    /\ pc[p] = "insert"
    /\ row[IncKey(p)] # NoRow
    /\ Unwind(p)
    /\ UNCHANGED <<store, config, rw, quota, budget, floor, lastGet>>

\* the INSERT fails for another reason: the same nil Result, the same panic
InsertFail(p) ==
    /\ pc[p] = "insert"
    /\ StoreFails(p)
    /\ Unwind(p)
    /\ UNCHANGED <<store, skip, regOf, db, quota, budget, rw, floor, lastGet>>

\* max = cur + delta; Exec(updateSQL, max, now, key) changes one row
Update(p) ==
    /\ pc[p] = "update" /\ DbOpen(Reg(p))
    /\ LET m == IncreaseUpdateMax(loc[p].cur, IncSkip(p)) IN
       /\ row' = [row EXCEPT ![IncKey(p)] = m]
       /\ loc' = [loc EXCEPT ![p].max = m, ![p].wr = m, ![p].io = @ + 1]
    /\ pc' = [pc EXCEPT ![p] = "commit"]
    /\ UNCHANGED <<config, sourceMap, rw, engines, call, ret, quota, budget,
                   issued, dups, segs, floor, orphans, lastGet, served>>

\* the UPDATE writes the value and the second the row already holds: MySQL
\* reports 0 changed rows and increase() returns "invalid effected row count"
UpdateNoChange(p) ==
    /\ pc[p] = "update" /\ DbOpen(Reg(p))
    /\ LET m == IncreaseUpdateMax(loc[p].cur, IncSkip(p)) IN
       /\ row[IncKey(p)] = m
       /\ loc' = [loc EXCEPT ![p].max = m, ![p].err = ErrRowCount, ![p].io = @ + 1]
    /\ pc' = [pc EXCEPT ![p] = "rollback"]
    /\ UNCHANGED <<store, config, sourceMap, rw, engines, call, ret, quota, budget,
                   issued, dups, segs, floor, orphans, lastGet, served>>

\* the UPDATE fails: increase() returns (cur, cur + delta, err)
UpdateFail(p) ==
    /\ pc[p] = "update"
    /\ StoreFails(p)
    /\ loc' = [loc EXCEPT ![p].max = IncreaseUpdateMax(loc[p].cur, IncSkip(p)),
                          ![p].err = ErrStore, ![p].io = @ + 1]
    /\ pc' = [pc EXCEPT ![p] = "rollback"]
    /\ UNCHANGED <<store, skip, regOf, db, quota, budget, sourceMap, rw, engines, call, ret,
                   issued, dups, segs, floor, orphans, lastGet, served>>

\* deferred: err = tx.Commit() succeeds; increase() returns (cur, max, nil)
Commit(p) ==
    /\ pc[p] = "commit"
    /\ Return(p, Nil)
    /\ UNCHANGED <<store, config, rw, quota, budget, floor, lastGet>>

\* deferred: err = tx.Commit() fails; increase() returns (cur, max, err) and
\* the row keeps what the autocommit statement wrote
CommitFail(p) ==
    /\ pc[p] = "commit" /\ fails > 0
    /\ fails' = fails - 1
    /\ Return(p, ErrStore)
    /\ UNCHANGED <<store, skip, regOf, db, quota, budget, rw, floor, lastGet>>

\* deferred: tx.Rollback() of the empty transaction; increase() returns
\* (cur, max, err)
Rollback(p) ==
    /\ pc[p] = "rollback"
    /\ Return(p, loc[p].err)
    /\ UNCHANGED <<store, config, rw, quota, budget, floor, lastGet>>

(* --------------------------- specifications ---------------------------- *)
NoQuota == [enable |-> 0, next |-> 0, current |-> 0, handle |-> 0, close |-> 0]

\* Spec: one registry with an administrator that calls EnableKeys and a
\* client that calls Next and Current, and store statements that fail
Init ==
    InitState([p \in Procs |-> IF p = "p1"
                  THEN [NoQuota EXCEPT !.enable = MaxCalls]
                  ELSE [NoQuota EXCEPT !.next = MaxCalls, !.current = MaxCalls]],
              MaxCalls, MaxFails, [r \in Regs |-> 1], [p \in Procs |-> 1])

Next ==
    \/ \E p \in Procs, k \in Keys : NextCall(p, k)
    \/ \E p \in Procs, k \in Keys : CurrentCall(p, k)
    \/ \E p \in Procs, ks \in KeyLists : EnableKeys(p, ks)
    \/ \E p \in Procs : Lookup(p)
    \/ \E p \in Procs : MutexLock(p)
    \/ \E p \in Procs : NextCheck(p)
    \/ \E p \in Procs : CurrentReturn(p)
    \/ \E p \in Procs : EnableLock(p)
    \/ \E p \in Procs : EnableSwap(p)
    \/ \E p \in Procs : Begin(p)
    \/ \E p \in Procs : Select(p)
    \/ \E p \in Procs : Insert(p)
    \/ \E p \in Procs : Update(p)
    \/ \E p \in Procs : Commit(p)
    \/ \E p \in Procs : Rollback(p)
    \/ \E p \in Procs : UpdateNoChange(p)
    \/ \E p \in Procs : BeginFail(p)
    \/ \E p \in Procs : SelectFail(p)
    \/ \E p \in Procs : InsertFail(p)
    \/ \E p \in Procs : UpdateFail(p)
    \/ \E p \in Procs : CommitFail(p)

Spec == Init /\ [][Next]_vars

\* SpecClients: one registry enabled once, two clients that call Next, and
\* store statements that fail
ClientNext == 2
InitClients ==
    InitState([p \in Procs |-> IF p = "p1"
                  THEN [NoQuota EXCEPT !.enable = 1, !.next = ClientNext]
                  ELSE [NoQuota EXCEPT !.next = ClientNext]],
              1 + 2 * ClientNext, MaxFails, [r \in Regs |-> 1], [p \in Procs |-> 1])

NextClients ==
    \/ \E p \in Procs, k \in Keys : NextCall(p, k)
    \/ \E p \in Procs, ks \in KeyLists : EnableKeys(p, ks)
    \/ \E p \in Procs : Lookup(p)
    \/ \E p \in Procs : MutexLock(p)
    \/ \E p \in Procs : NextCheck(p)
    \/ \E p \in Procs : EnableLock(p)
    \/ \E p \in Procs : EnableSwap(p)
    \/ \E p \in Procs : Begin(p)
    \/ \E p \in Procs : Select(p)
    \/ \E p \in Procs : Insert(p)
    \/ \E p \in Procs : Update(p)
    \/ \E p \in Procs : Commit(p)
    \/ \E p \in Procs : Rollback(p)
    \/ \E p \in Procs : BeginFail(p)
    \/ \E p \in Procs : SelectFail(p)
    \/ \E p \in Procs : InsertFail(p)
    \/ \E p \in Procs : UpdateFail(p)
    \/ \E p \in Procs : CommitFail(p)

SpecClients == InitClients /\ [][NextClients]_vars

\* SpecRace: two registries (processes) on one store, each enabled once by
\* its worker, which then calls Next; no store statement fails
RaceNext == 2
InitRace ==
    InitState([p \in Procs |-> [NoQuota EXCEPT !.enable = 1, !.next = RaceNext]],
              2 + 2 * RaceNext, 0, [r \in Regs |-> 1],
              [p \in Procs |-> IF p = "p1" THEN 1 ELSE 2])

NextRace ==
    \/ \E p \in Procs, k \in Keys : NextCall(p, k)
    \/ \E p \in Procs, ks \in KeyLists : EnableKeys(p, ks)
    \/ \E p \in Procs : Lookup(p)
    \/ \E p \in Procs : MutexLock(p)
    \/ \E p \in Procs : NextCheck(p)
    \/ \E p \in Procs : EnableLock(p)
    \/ \E p \in Procs : EnableSwap(p)
    \/ \E p \in Procs : Begin(p)
    \/ \E p \in Procs : Select(p)
    \/ \E p \in Procs : Insert(p)
    \/ \E p \in Procs : Update(p)
    \/ \E p \in Procs : Commit(p)
    \/ \E p \in Procs : Rollback(p)
    \/ \E p \in Procs : InsertDuplicate(p)
    \/ \E p \in Procs : UpdateNoChange(p)

SpecRace == InitRace /\ [][NextRace]_vars

\* SpecReplace: one registry whose administrator calls EnableKeys while a
\* client calls Next; no store statement fails
ReplaceEnable == 2
ReplaceNext == 3
InitReplace ==
    InitState([p \in Procs |-> IF p = "p1"
                  THEN [NoQuota EXCEPT !.enable = ReplaceEnable]
                  ELSE [NoQuota EXCEPT !.next = ReplaceNext]],
              ReplaceEnable + ReplaceNext, 0, [r \in Regs |-> 1],
              [p \in Procs |-> 1])

NextReplace ==
    \/ \E p \in Procs, k \in Keys : NextCall(p, k)
    \/ \E p \in Procs, ks \in KeyLists : EnableKeys(p, ks)
    \/ \E p \in Procs : Lookup(p)
    \/ \E p \in Procs : MutexLock(p)
    \/ \E p \in Procs : NextCheck(p)
    \/ \E p \in Procs : EnableLock(p)
    \/ \E p \in Procs : EnableSwap(p)
    \/ \E p \in Procs : Begin(p)
    \/ \E p \in Procs : Select(p)
    \/ \E p \in Procs : Insert(p)
    \/ \E p \in Procs : Update(p)
    \/ \E p \in Procs : Commit(p)
    \/ \E p \in Procs : Rollback(p)
    \/ \E p \in Procs : UpdateNoChange(p)

SpecReplace == InitReplace /\ [][NextReplace]_vars

\* SpecSingle: one worker enables the keys once on an empty table and calls
\* Next; no store statement fails
SingleNext == 5
Skips == {0, 1, 2}
InitSingle ==
    \E sk \in Skips :
        InitState([p \in {"p1"} |-> [NoQuota EXCEPT !.enable = 1, !.next = SingleNext]],
                  1 + SingleNext, 0, [r \in Regs |-> sk], [p \in {"p1"} |-> 1])

NextSingle ==
    \/ \E p \in Procs, k \in Keys : NextCall(p, k)
    \/ \E p \in Procs, ks \in KeyLists : EnableKeys(p, ks)
    \/ \E p \in Procs : Lookup(p)
    \/ \E p \in Procs : MutexLock(p)
    \/ \E p \in Procs : NextCheck(p)
    \/ \E p \in Procs : EnableLock(p)
    \/ \E p \in Procs : EnableSwap(p)
    \/ \E p \in Procs : Begin(p)
    \/ \E p \in Procs : Select(p)
    \/ \E p \in Procs : Insert(p)
    \/ \E p \in Procs : Update(p)
    \/ \E p \in Procs : Commit(p)

SpecSingle == InitSingle /\ [][NextSingle]_vars

\* SpecClose: one registry whose administrator calls EnableKeys while a client
\* calls Next and Current and closes the registry; the only statements that
\* fail are those that meet the closed connection pool
CloseEnable == 1
CloseNext == 2
InitClose ==
    InitState([p \in Procs |-> IF p = "p1"
                  THEN [NoQuota EXCEPT !.enable = CloseEnable]
                  ELSE [NoQuota EXCEPT !.next = CloseNext, !.current = 1, !.close = 1]],
              CloseEnable + CloseNext + 2, 0, [r \in Regs |-> 1], [p \in Procs |-> 1])

NextClose ==
    \/ \E p \in Procs, k \in Keys : NextCall(p, k)
    \/ \E p \in Procs, k \in Keys : CurrentCall(p, k)
    \/ \E p \in Procs, ks \in KeyLists : EnableKeys(p, ks)
    \/ \E p \in Procs : Close(p)
    \/ \E p \in Procs : Lookup(p)
    \/ \E p \in Procs : MutexLock(p)
    \/ \E p \in Procs : NextCheck(p)
    \/ \E p \in Procs : CurrentReturn(p)
    \/ \E p \in Procs : EnableLock(p)
    \/ \E p \in Procs : EnableSwap(p)
    \/ \E p \in Procs : Begin(p)
    \/ \E p \in Procs : Select(p)
    \/ \E p \in Procs : Insert(p)
    \/ \E p \in Procs : Update(p)
    \/ \E p \in Procs : Commit(p)
    \/ \E p \in Procs : Rollback(p)
    \/ \E p \in Procs : BeginFail(p)
    \/ \E p \in Procs : SelectFail(p)
    \/ \E p \in Procs : InsertFail(p)
    \/ \E p \in Procs : UpdateFail(p)

SpecClose == InitClose /\ [][NextClose]_vars

\* SpecHandler: one worker enables the keys and then sends requests through
\* the protocol handler; store statements fail
HandlerCalls == 3
Verbs == {<<"P", "I", "N", "G">>, <<"p", "i", "n", "g">>, <<"I", "n", "c", "r">>,
          <<"i", "n", "c", "r">>, <<"G", "E", "T">>, <<"g", "e", "T">>,
          <<"S", "E", "T">>, <<"I", "N", "C", "R", "B", "Y">>}
ArgLists == {<< >>, <<"a">>, <<"a", "b">>}
Requests == [cmd : Verbs, args : ArgLists]
InitHandler ==
    InitState([p \in {"p1"} |-> [NoQuota EXCEPT !.enable = 1, !.next = HandlerCalls,
                                     !.current = HandlerCalls, !.handle = HandlerCalls]],
              1 + HandlerCalls, MaxFails, [r \in Regs |-> 1], [p \in {"p1"} |-> 1])

NextHandler ==
    \/ \E p \in Procs, req \in Requests : Handle(p, req)
    \/ \E p \in Procs, ks \in KeyLists : EnableKeys(p, ks)
    \/ \E p \in Procs : Lookup(p)
    \/ \E p \in Procs : MutexLock(p)
    \/ \E p \in Procs : NextCheck(p)
    \/ \E p \in Procs : CurrentReturn(p)
    \/ \E p \in Procs : EnableLock(p)
    \/ \E p \in Procs : EnableSwap(p)
    \/ \E p \in Procs : Begin(p)
    \/ \E p \in Procs : Select(p)
    \/ \E p \in Procs : Insert(p)
    \/ \E p \in Procs : Update(p)
    \/ \E p \in Procs : Commit(p)
    \/ \E p \in Procs : Rollback(p)
    \/ \E p \in Procs : BeginFail(p)
    \/ \E p \in Procs : SelectFail(p)
    \/ \E p \in Procs : InsertFail(p)
    \/ \E p \in Procs : UpdateFail(p)
    \/ \E p \in Procs : CommitFail(p)

SpecHandler == InitHandler /\ [][NextHandler]_vars

\* SpecServe: one registry whose first worker calls EnableKeys and Next while
\* the second calls Next and Current; no store statement fails
ServeCalls == 4
InitServe ==
    InitState([p \in Procs |-> IF p = "p1"
                  THEN [NoQuota EXCEPT !.enable = 2, !.next = ServeCalls]
                  ELSE [NoQuota EXCEPT !.next = ServeCalls, !.current = 1]],
              ServeCalls, 0, [r \in Regs |-> 1], [p \in Procs |-> 1])

NextServe ==
    \/ \E p \in Procs, k \in Keys : NextCall(p, k)
    \/ \E p \in Procs, k \in Keys : CurrentCall(p, k)
    \/ \E p \in Procs, ks \in KeyLists : EnableKeys(p, ks)
    \/ \E p \in Procs : Lookup(p)
    \/ \E p \in Procs : MutexLock(p)
    \/ \E p \in Procs : NextCheck(p)
    \/ \E p \in Procs : CurrentReturn(p)
    \/ \E p \in Procs : EnableLock(p)
    \/ \E p \in Procs : EnableSwap(p)
    \/ \E p \in Procs : Begin(p)
    \/ \E p \in Procs : Select(p)
    \/ \E p \in Procs : Insert(p)
    \/ \E p \in Procs : Update(p)
    \/ \E p \in Procs : Commit(p)
    \/ \E p \in Procs : Rollback(p)
    \/ \E p \in Procs : UpdateNoChange(p)

SpecServe == InitServe /\ [][NextServe]_vars

\* SpecLive: one registry whose first worker calls EnableKeys and Next while
\* the second calls Next and Current; store statements fail; every worker
\* that is inside a call eventually takes its next step (the scheduler runs
\* every goroutine, and every store call returns)
LiveCalls == 3
InitLive ==
    InitState([p \in Procs |-> IF p = "p1"
                  THEN [NoQuota EXCEPT !.enable = LiveCalls, !.next = LiveCalls]
                  ELSE [NoQuota EXCEPT !.next = LiveCalls, !.current = 1]],
              LiveCalls, MaxFails, [r \in Regs |-> 1], [p \in Procs |-> 1])

\* the steps of a call that worker p has started
StepLive(p) ==
    \/ Lookup(p)
    \/ MutexLock(p)
    \/ NextCheck(p)
    \/ CurrentReturn(p)
    \/ EnableLock(p)
    \/ EnableSwap(p)
    \/ Begin(p)
    \/ Select(p)
    \/ Insert(p)
    \/ Update(p)
    \/ Commit(p)
    \/ Rollback(p)
    \/ BeginFail(p)
    \/ SelectFail(p)
    \/ InsertFail(p)
    \/ UpdateFail(p)
    \/ CommitFail(p)

NextLive ==
    \/ \E p \in Procs, k \in Keys : NextCall(p, k)
    \/ \E p \in Procs, k \in Keys : CurrentCall(p, k)
    \/ \E p \in Procs, ks \in KeyLists : EnableKeys(p, ks)
    \/ \E p \in Procs : StepLive(p)

SpecLive == InitLive /\ [][NextLive]_vars /\ \A p \in Procs : WF_vars(StepLive(p))

(* ------------------------------- claims -------------------------------- *)
Moved(p) == pc'[p] # pc[p]
InIncrease(p) == pc[p] \in {"begin", "select", "insert", "update", "commit", "rollback"}
Installed(r) == Range(sourceMap[r]) \ {NoEngine}
EnginesOf(k) == {e \in EngineIds : engines[e].key = k}

\* C1: within one registry no identifier is returned by two successful
\* Next(k) calls, also when refills fail.
C1_NoDuplicateInRegistry ==
    \A d \in dups : engines[d.first].reg # engines[d.second].reg

\* C2: engines of the same key in two registries never obtain overlapping
\* segments (previousMax, newMax] and never return the same identifier.
C2_NoOverlapAcrossRegistries ==
    /\ \A s1, s2 \in segs :
          s1.key = s2.key /\ s1.reg # s2.reg
              => s1.new <= s2.prev \/ s2.new <= s1.prev
    /\ \A d \in dups : engines[d.first].reg = engines[d.second].reg

\* C3: every identifier an installed engine returns is greater than every
\* identifier returned for its key before EnableKeys installed it.
C3_NoReuseAfterReplace ==
    \A x \in issued : x.eng \in DOMAIN floor => x.id > floor[x.eng]

\* C4: no write to a counter row lowers its value.
C4_RowNeverDecreases ==
    [][\A k \in Keys : row[k] <= row'[k]]_vars

\* C5: for a key without a row that a single engine serves, with no store
\* failure, the n-th Next returns n, and it reserves a segment exactly when
\* n = j * skip + 1 with j >= 1.
C5_NthNextReturnsN ==
    ret.op = "Next" /\ ret.err = Nil /\ EnginesOf(ret.key) = {ret.eng}
        => /\ ret.id = ret.n
           /\ ret.refill <=> (ret.n > 1 /\ (ret.n - 1) % engines[ret.eng].skip = 0)

C5_Witness ==
    /\ ret.op = "Next" /\ ret.err = Nil /\ EnginesOf(ret.key) = {ret.eng}
    /\ ret.refill /\ ret.n = 5 /\ engines[ret.eng].skip = 2

\* C6: no step of an EnableKeys call that ends in an error changes the
\* registry's mapping or an engine, and no engine built by such a call is in
\* a mapping or in the hands of a Next/Current call.
C6_FailedEnableKeepsMapping ==
    [][/\ \A p \in Procs :
             /\ Moved(p)
             /\ call[p].op = "EnableKeys" \/ call'[p].op = "EnableKeys"
             /\ pc[p] # "swap"
             => /\ sourceMap' = sourceMap
                /\ \A e \in EngineIds : engines'[e] = engines[e]
       /\ \A p \in Procs :
             Moved(p) /\ ret'.proc = p /\ ret'.op = "EnableKeys" /\ ret'.err # Nil
                /\ pc'[p] = "idle"
             => pc[p] # "swap" /\ Built(p) \subseteq orphans'
       /\ \A e \in orphans' :
             /\ \A r \in Regs : e \notin Range(sourceMap'[r])
             /\ \A p \in Procs : loc'[p].eng # e]_vars

C6_Witness ==
    /\ ret.op = "EnableKeys" /\ ret.err \notin {Nil, ErrInvalidSkip}
    /\ orphans # {}
    /\ Installed(1) # {}

\* C7: a successful EnableKeys(keys) replaces the mapping in one step by
\* exactly the input keys, each with an engine this call built from one
\* increase() (cur = the value read, max = the value written), and the
\* mapping changes in no other step.
C7_SwapInstallsExactlyInput ==
    [][/\ \A p \in Procs :
             pc[p] = "swap" /\ Moved(p) =>
                 /\ ret'.proc = p /\ ret'.op = "EnableKeys" /\ ret'.err = Nil
                 /\ \A k \in Keys :
                       IF k \in Range(call[p].keys)
                       THEN LET e == sourceMap'[Reg(p)][k]
                                made == {s \in segs : s.eng = e} IN
                            /\ e \in Built(p) /\ e \notin DOMAIN floor
                            /\ engines[e].key = k /\ engines[e].reg = Reg(p)
                            /\ Cardinality(made) = 1
                            /\ \A s \in made :
                                  /\ engines[e].cur = s.rd /\ engines[e].max = s.wr
                                  /\ s.wr = s.rd + skip[Reg(p)]
                       ELSE sourceMap'[Reg(p)][k] = NoEngine
       /\ sourceMap' # sourceMap
             => \E p \in Procs : pc[p] = "swap" /\ Moved(p)]_vars

C7_Witness ==
    /\ ret.op = "EnableKeys" /\ ret.err = Nil /\ ret.keys # << >>
    /\ \E k \in Keys :
          /\ sourceMap[1][k] = NoEngine
          /\ \E e \in DOMAIN floor : engines[e].key = k
    /\ \E e \in DOMAIN floor : e \notin Installed(1) /\ engines[e].key \in Range(ret.keys)

\* C8: a Next whose refill fails returns the error and leaves the engine's
\* cur and max as they were.
C8_FailedRefillKeepsSegment ==
    [][\A p \in Procs :
          /\ call[p].op = "Next" /\ InIncrease(p) /\ pc'[p] = "idle"
          /\ ret'.err # Nil
          => /\ engines'[loc[p].eng].cur = engines[loc[p].eng].cur
             /\ engines'[loc[p].eng].max = engines[loc[p].eng].max]_vars

\* C9: Next/Current of a key that is not in the mapping fail with
\* ErrKeyDoesNotExist, issue no store statement and change neither the
\* mapping nor an engine nor a counter row.
C9_MissingKey ==
    [][\A p \in Procs :
          /\ pc[p] = "idle" /\ pc'[p] = "lookup"
                => UNCHANGED <<row, sourceMap, engines>>
          /\ pc[p] = "lookup" /\ Moved(p)
                /\ sourceMap[Reg(p)][call[p].key] = NoEngine
                => /\ pc'[p] = "idle"
                   /\ ret'.proc = p /\ ret'.op = call[p].op
                   /\ ret'.err = ErrKeyDoesNotExist
                   /\ ret'.io = 0 /\ ret'.id = 0
                   /\ UNCHANGED <<row, sourceMap, engines>>]_vars

C9_Witness ==
    /\ ret.op \in {"Next", "Current"} /\ ret.err = ErrKeyDoesNotExist
    /\ \E k \in Keys : k # ret.key /\ sourceMap[1][k] # NoEngine

\* what every step of a Current call leaves alone
CurrentKeeps(p) ==
    call[p].op = "Current" \/ call'[p].op = "Current"
        => /\ row' = row
           /\ \A e \in EngineIds :
                 engines'[e].cur = engines[e].cur /\ engines'[e].max = engines[e].max

\* C10: Current(key) changes neither cur and max of the engine nor the
\* store, and Current(key) calls with no Next(key) between them return the
\* same value.
C10_CurrentIdempotent ==
    [][\A p \in Procs : Moved(p) =>
          /\ CurrentKeeps(p)
          /\ pc[p] = "current" /\ lastGet[Reg(p)][call[p].key] # NoGet
                => ret'.id = lastGet[Reg(p)][call[p].key].id]_vars

\* C10 as amended: ... with no Next(key) between them and no EnableKeys that
\* replaced the engine of the key between them return the same value.
C10_CurrentIdempotentSameEngine ==
    [][\A p \in Procs : Moved(p) =>
          /\ CurrentKeeps(p)
          /\ pc[p] = "current" /\ lastGet[Reg(p)][call[p].key].eng = loc[p].eng
                => /\ ret'.proc = p /\ ret'.op = "Current" /\ ret'.err = Nil
                   /\ ret'.id = lastGet[Reg(p)][call[p].key].id]_vars

C10_Witness ==
    /\ ret.op = "Current" /\ ret.err = Nil
    /\ ret.prev.eng = ret.eng
    /\ ret.id > 0

\* C11 (as stated): a Next or Current call made on a registry after its
\* Close() has returned returns no identifier.
C11_ClosedReturnsNoId ==
    ret.late /\ ret.op \in {"Next", "Current"} => ret.err # Nil

\* C11 (amended): a Next call made on a registry after its Close() has
\* returned that has to reserve a new segment returns no identifier.
C11_ClosedNeverRefills ==
    ret.late /\ ret.op = "Next" /\ ret.refill => ret.err # Nil

C11_Witness ==
    ret.late /\ ret.op = "Next" /\ ret.refill /\ ret.err # Nil

\* the command w is the verb V in some mix of upper and lower case
SameVerb(w, V) ==
    /\ Len(w) = Len(V)
    /\ \A i \in DOMAIN V : \E j \in DOMAIN Upper :
          V[i] = Upper[j] /\ w[i] \in {Upper[j], Lower[j]}

\* C12: every request handled gets exactly one reply: PING in any case the
\* acknowledgement; INCR and GET with an argument count other than 1 the
\* "invalid arguments" error without a call of the registry; INCR and GET with
\* one argument the result of Next / Current or the error's message; any other
\* verb "unsupported method.".
C12_OneReplyPerRequest ==
    ret.req # NoReq =>
        LET is(V) == SameVerb(ret.req.cmd, V)
            n == Len(ret.req.args)
            result == IF ret.err # Nil THEN [kind |-> "error", str |-> ret.err, num |-> 0]
                      ELSE IF ret.op = "Next"
                      THEN [kind |-> "integer", str |-> "", num |-> ret.id]
                      ELSE [kind |-> "simple", str |-> FormatInt(ret.id), num |-> 0] IN
        /\ ret.reply.kind \in {"simple", "error", "integer"}
        /\ is(PING) =>
              ret.op = "Handle" /\ ret.reply = [kind |-> "simple", str |-> "PONG", num |-> 0]
        /\ (is(INCR) \/ is(GET)) /\ n # 1 =>
              /\ ret.op = "Handle"
              /\ ret.reply = [kind |-> "error", str |-> "invalid arguments", num |-> 0]
        /\ is(INCR) /\ n = 1 =>
              ret.op = "Next" /\ ret.key = ret.req.args[1] /\ ret.reply = result
        /\ is(GET) /\ n = 1 =>
              ret.op = "Current" /\ ret.key = ret.req.args[1] /\ ret.reply = result
        /\ ~(is(PING) \/ is(INCR) \/ is(GET)) =>
              /\ ret.op = "Handle"
              /\ ret.reply = [kind |-> "error", str |-> "unsupported method.", num |-> 0]

\* C13: in every state every constructed engine has 0 <= max - cur <= step,
\* whether its refills succeeded or failed.
C13_SegmentWithinStep ==
    \A e \in EngineIds :
        /\ 0 <= engines[e].max - engines[e].cur
        /\ engines[e].max - engines[e].cur <= engines[e].skip

C13_Witness ==
    /\ ret.op = "Next" /\ ret.refill /\ ret.err = ErrStore
    /\ engines[ret.eng].max - engines[ret.eng].cur = engines[ret.eng].skip
    /\ \E x \in issued : x.eng = ret.eng

\* C14: every identifier an engine has returned from Next is less than or
\* equal to the max that engine holds now.
C14_IssuedWithinMax ==
    \A x \in issued : x.id <= engines[x.eng].max

\* C15: every identifier returned by Next(k), by any engine of any registry,
\* is less than or equal to the value the counter row of k holds now.
C15_IssuedWithinRow ==
    \A x \in issued : x.id <= row[x.key]

\* worker q can take the next step of its call
CanStep(q) ==
    ENABLED (\/ Lookup(q) \/ MutexLock(q) \/ NextCheck(q) \/ CurrentReturn(q)
             \/ Begin(q) \/ Select(q) \/ Insert(q) \/ Update(q)
             \/ Commit(q) \/ Rollback(q))

\* C16: a worker with a store operation in flight, inside EnableKeys or
\* inside a refill, holds no lock of the registry, and a Next or Current of
\* another worker on any other key is never blocked by it.
C16_NoRegistryLockDuringStore ==
    \A p \in Workers :
        InIncrease(p) =>
            /\ rw[Reg(p)].writer # p
            /\ p \notin rw[Reg(p)].readers
            /\ \A q \in Workers \ {p} :
                  /\ Reg(q) = Reg(p)
                  /\ call[q].op \in {"Next", "Current"}
                  /\ call[q].key # IncKey(p)
                  => CanStep(q)

\* a Reserve in flight inside EnableKeys while the other worker is past the
\* lookup of another key
C16_Witness ==
    \E p, q \in Workers :
        /\ p # q /\ InIncrease(p) /\ pc[p] # "begin" /\ call[p].op = "EnableKeys"
        /\ call[q].op \in {"Next", "Current"} /\ call[q].key # IncKey(p)
        /\ pc[q] \in {"check", "current"}

\* C17 (as stated): within one registry at most one Reserve for a key is in
\* flight, whether it was started by Next or by EnableKeys.
C17_OneReservePerKey ==
    \A p, q \in Workers :
        p # q /\ Reg(p) = Reg(q) /\ InIncrease(p) /\ InIncrease(q)
        => IncKey(p) # IncKey(q)

\* C17 (amended): at most one Reserve of one engine is in flight, under any
\* interleaving of Next calls.
C17_OneReservePerEngine ==
    \A p, q \in Workers :
        /\ p # q /\ InIncrease(p) /\ InIncrease(q)
        /\ call[p].op = "Next" /\ call[q].op = "Next"
        => loc[p].eng # loc[q].eng

C17_Witness ==
    \E p, q \in Workers :
        /\ p # q /\ InIncrease(p) /\ call[p].op = "Next"
        /\ call[q].op = "Next" /\ pc[q] = "mutex" /\ loc[q].eng = loc[p].eng

\* C18: a first reservation whose INSERT meets the row another first
\* reservation created in the meantime ends with an error returned to its
\* caller, and installs no engine.
C18_LosingInsertReturnsError ==
    [][\A p \in Workers :
          pc[p] = "insert" /\ row[IncKey(p)] # NoRow /\ Moved(p)
          => /\ ret'.proc = p
             /\ ret'.err \notin {Nil, Panic}
             /\ sourceMap' = sourceMap]_vars

\* C19: a Reserve that returns an error leaves the counter row of its key as
\* it was when the Reserve began, whichever statement failed.
C19_FailedReserveKeepsRow ==
    [][\A p \in Workers :
          /\ InIncrease(p) /\ pc[p] # "begin" /\ Moved(p)
          /\ pc'[p] = "idle" /\ ret'.err # Nil
          => row'[IncKey(p)] = loc[p].pre]_vars

\* C20: the Next that follows on an engine a Next whose refill failed
\* performs a Reserve before it returns an identifier.
C20_ReserveAfterFailedRefill ==
    [][\A p \in Workers :
          /\ ret.op = "Next" /\ ret.refill /\ ret.err # Nil
          /\ call[p].op = "Next" /\ loc[p].eng = ret.eng
          /\ Moved(p) /\ pc'[p] = "idle" /\ ret'.err = Nil
          => ret'.refill]_vars

\* worker p holds a lock of its registry / the mutex of an engine
HoldsRegistry(p) ==
    \E r \in Regs : rw[r].writer = p \/ p \in rw[r].readers
HoldsMutex(p) ==
    \E e \in EngineIds : engines[e].mutex = p

\* C21: no worker holds the registry lock and an engine mutex at the same
\* time, and under fairness, with store calls that return, every Next,
\* Current and EnableKeys call that was started returns.
C21_NoLockPairAndTermination ==
    /\ [](\A p \in Procs : ~(HoldsRegistry(p) /\ HoldsMutex(p)))
    /\ \A p \in Procs : (pc[p] # "idle") ~> (pc[p] = "idle")

\* both locks are held, by different workers: one swaps the mapping while
\* the other is inside an engine
C21_Witness ==
    \E p, q \in Procs :
        /\ p # q /\ pc[p] = "swap" /\ rw[Reg(p)].writer = p
        /\ HoldsMutex(q) /\ Reg(q) = Reg(p)

====
